---- MODULE Spec2Model ----
(***************************************************************************)
(* Model of claudeprompts/extract_sessions.py: extraction of user prompts  *)
(* from JSON-lines session logs and their rendering as markdown.           *)
(*                                                                         *)
(* Python values are tagged records: [t |-> "str", v |-> "..."],           *)
(* [t |-> "null"], [t |-> "num", v |-> n], [t |-> "list", v |-> <<...>>],  *)
(* [t |-> "dict", v |-> [key |-> value, ...]].  Python str results of the  *)
(* functions (extracted text, prompt content) are plain TLA+ strings.      *)
(* A call either returns, [exc |-> "", val |-> v], or raises,              *)
(* [exc |-> "AttributeError"].                                             *)
(***************************************************************************)
EXTENDS Integers, Sequences, FiniteSets, TLC

\* ------------------------------------------------------------------ bounds
MaxBlocks == 3      \* longest content block sequence drawn
MaxLines  == 3      \* most lines of the file given to process_session alone
MaxMainLines == 1   \* most lines of a session file in a run of main
MaxFiles  == 2      \* most session files found by main

\* ------------------------------------------------------- Python values
Str(s)   == [t |-> "str", v |-> s]
Num(n)   == [t |-> "num", v |-> n]
Null     == [t |-> "null"]
List(q)  == [t |-> "list", v |-> q]
Dict(f)  == [t |-> "dict", v |-> f]
EmptyDict == [t |-> "dict", v |-> <<>>]

Ok(v)    == [exc |-> "", val |-> v]
Raise(e) == [exc |-> e]

IsStr(x)  == x.t = "str"
IsList(x) == x.t = "list"
IsDict(x) == x.t = "dict"

\* d.get(k, default) on a mapping d
DictGet(d, k, default) == IF k \in DOMAIN d.v THEN d.v[k] ELSE default

\* x == "literal" for a Python value x
EqStr(x, s) == IsStr(x) /\ x.v = s

\* bool(x)
Truthy(x) ==
  CASE x.t = "null" -> FALSE
    [] x.t = "str"  -> x.v # ""
    [] x.t = "num"  -> x.v # 0
    [] x.t = "list" -> Len(x.v) > 0
    [] x.t = "dict" -> DOMAIN x.v # {}

\* ------------------------------------------------------- str methods
StartsWith(s, p) == Len(s) >= Len(p) /\ SubSeq(s, 1, Len(p)) = p

IsSpace(c) == c \in {" ", "\n", "\t"}

RECURSIVE LStrip(_)
LStrip(s) ==
  IF Len(s) > 0 /\ IsSpace(SubSeq(s, 1, 1)) THEN LStrip(SubSeq(s, 2, Len(s))) ELSE s

RECURSIVE RStrip(_)
RStrip(s) ==
  IF Len(s) > 0 /\ IsSpace(SubSeq(s, Len(s), Len(s)))
  THEN RStrip(SubSeq(s, 1, Len(s) - 1)) ELSE s

\* s.strip()
Strip(s) == RStrip(LStrip(s))

\* "\n".join(texts)
RECURSIVE Join(_)
Join(texts) ==
  IF Len(texts) = 0 THEN ""
  ELSE IF Len(texts) = 1 THEN texts[1]
  ELSE texts[1] \o "\n" \o Join(Tail(texts))

\* s.replace('Z', '+00:00')
RECURSIVE ReplaceZ(_)
ReplaceZ(s) ==
  IF Len(s) = 0 THEN ""
  ELSE (IF SubSeq(s, 1, 1) = "Z" THEN "+00:00" ELSE SubSeq(s, 1, 1))
       \o ReplaceZ(SubSeq(s, 2, Len(s)))

\* ------------------------------------------------ extract_text_content
\* faulty variant: the "[Tool" marker is not filtered
RECURSIVE ExtractLoop_KeepsTool(_, _)
ExtractLoop_KeepsTool(items, texts) ==
  IF Len(items) = 0 THEN Ok(Join(texts))
  ELSE LET item == Head(items)
           rest == Tail(items)
       IN IF IsDict(item) /\ EqStr(DictGet(item, "type", Null), "text")
          THEN LET text == DictGet(item, "text", Str(""))
               IN IF ~IsStr(text) THEN Raise("AttributeError")
                  ELSE IF ~StartsWith(text.v, "[Request interrupted")
                       THEN ExtractLoop_KeepsTool(rest, Append(texts, text.v))
                       ELSE ExtractLoop_KeepsTool(rest, texts)
          ELSE ExtractLoop_KeepsTool(rest, texts)

\* the for loop over a list content; texts is the accumulator
RECURSIVE ExtractLoop(_, _)
ExtractLoop(items, texts) ==
  IF Len(items) = 0 THEN Ok(Join(texts))
  ELSE LET item == Head(items)
           rest == Tail(items)
       IN IF IsDict(item) /\ EqStr(DictGet(item, "type", Null), "text")
          THEN LET text == DictGet(item, "text", Str(""))
               IN IF ~IsStr(text) THEN Raise("AttributeError")
                  ELSE IF ~StartsWith(text.v, "[Request interrupted")
                          /\ ~StartsWith(text.v, "[Tool")
                       THEN ExtractLoop(rest, Append(texts, text.v))
                       ELSE ExtractLoop(rest, texts)
          ELSE ExtractLoop(rest, texts)

extract_text_content(content) ==
  IF IsStr(content) THEN Ok(content.v)
  ELSE IF IsList(content) THEN ExtractLoop(content.v, <<>>)
  ELSE Ok("")

\* ------------------------------------------------- is_real_user_prompt
\* faulty variant: only the first block is looked at
HasToolResult_FirstOnly(items) ==
  Len(items) > 0
  /\ IsDict(items[1]) /\ EqStr(DictGet(items[1], "type", Null), "tool_result")

\* lines 37-40: the "Skip tool results" loop
HasToolResult(items) ==
  \E i \in 1..Len(items) :
     IsDict(items[i]) /\ EqStr(DictGet(items[i], "type", Null), "tool_result")

is_real_user_prompt(data, content_text) ==
  IF ~IsDict(data) THEN Raise("AttributeError")
  ELSE IF ~EqStr(DictGet(data, "type", Null), "user") THEN Ok(FALSE)
  ELSE LET message == DictGet(data, "message", EmptyDict)
       IN IF ~IsDict(message) THEN Raise("AttributeError")
          ELSE LET content == DictGet(message, "content", Str(""))
               IN IF IsList(content) /\ HasToolResult(content.v) THEN Ok(FALSE)
                  ELSE IF content_text = "" \/ Len(Strip(content_text)) < 2
                       THEN Ok(FALSE)
                  ELSE IF StartsWith(content_text, "[Request interrupted")
                       THEN Ok(FALSE)
                  ELSE Ok(TRUE)

\* ------------------------------------------------------------ json.loads
\* A line of a session file is represented by what json.loads(line.strip())
\* makes of it: a syntax error (raw keeps the offending text) or a value.
CorruptLine(raw) == [json |-> "invalid", raw |-> raw]
ValidLine(v)     == [json |-> "valid", value |-> v]

json_loads(line) ==
  IF line.json = "invalid" THEN Raise("JSONDecodeError") ELSE Ok(line.value)

\* ------------------------------------------------------- process_session
\* session_info is a Python dict: the empty function, or the four keys.
EmptyInfo == <<>>

\* faulty variant: the "not session_info" guard is missing, the last record wins
CaptureInfo_LastWins(session_info, data) ==
  IF Truthy(DictGet(data, "sessionId", Null))
  THEN [sessionId |-> DictGet(data, "sessionId", Str("")),
        slug      |-> DictGet(data, "slug", Str("")),
        gitBranch |-> DictGet(data, "gitBranch", Str("")),
        version   |-> DictGet(data, "version", Str(""))]
  ELSE session_info

\* lines 63-69: first-seen capture of the session info
CaptureInfo(session_info, data) ==
  IF DOMAIN session_info = {} /\ Truthy(DictGet(data, "sessionId", Null))
  THEN [sessionId |-> DictGet(data, "sessionId", Str("")),
        slug      |-> DictGet(data, "slug", Str("")),
        gitBranch |-> DictGet(data, "gitBranch", Str("")),
        version   |-> DictGet(data, "version", Str(""))]
  ELSE session_info

\* faulty variant: a prompt whose content was already kept is dropped
AppendPrompt_Dedup(prompts, text, timestamp) ==
  IF \E i \in 1..Len(prompts) : prompts[i].content = Strip(text)
  THEN prompts
  ELSE Append(prompts, [content |-> Strip(text), timestamp |-> timestamp])

\* lines 78-81: prompts.append({...})
AppendPrompt(prompts, text, timestamp) ==
  Append(prompts, [content |-> Strip(text), timestamp |-> timestamp])

Step(e, p, s) == [exc |-> e, prompts |-> p, session_info |-> s]

\* faulty variant: the decode error is not caught and ends the call
OnJSONDecodeError_Propagates(prompts, session_info) ==
  Step("JSONDecodeError", prompts, session_info)

\* lines 82-83: except json.JSONDecodeError: continue
OnJSONDecodeError(prompts, session_info) == Step("", prompts, session_info)

\* the body of "for line in f" (lines 59-83) on state (prompts, session_info)
ProcessLine(prompts, session_info, line) ==
  LET parsed == json_loads(line)
  IN IF parsed.exc = "JSONDecodeError" THEN OnJSONDecodeError(prompts, session_info)
     ELSE LET data == parsed.val
          IN IF ~IsDict(data) THEN Step("AttributeError", prompts, session_info)
             ELSE LET info    == CaptureInfo(session_info, data)
                      message == DictGet(data, "message", EmptyDict)
                  IN IF ~IsDict(message) THEN Step("AttributeError", prompts, info)
                     ELSE LET content   == DictGet(message, "content", Str(""))
                              timestamp == DictGet(data, "timestamp", Str(""))
                              text      == extract_text_content(content)
                          IN IF text.exc # "" THEN Step(text.exc, prompts, info)
                             ELSE LET real == is_real_user_prompt(data, text.val)
                                  IN IF real.exc # "" THEN Step(real.exc, prompts, info)
                                     ELSE IF real.val
                                          THEN Step("", AppendPrompt(prompts, text.val, timestamp), info)
                                          ELSE Step("", prompts, info)

\* ------------------------------------------------------ write_session_md
\* f"{x}" of a Python value
PyStr(x) ==
  CASE x.t = "str"  -> x.v
    [] x.t = "null" -> "None"
    [] x.t = "num"  -> ToString(x.v)

IsDigit(c) == c \in {"0", "1", "2", "3", "4", "5", "6", "7", "8", "9"}

AllDigits(s, idx) == \A i \in idx : IsDigit(SubSeq(s, i, i))

\* datetime.fromisoformat(s) succeeds; shapes YYYY-MM-DD?HH:MM[:SS[.fff]][+HH:MM],
\* field ranges are not checked
IsIsoFormat(s) ==
  /\ Len(s) \in {16, 19, 22, 23, 25, 29}
  /\ AllDigits(s, {1, 2, 3, 4, 6, 7, 9, 10, 12, 13, 15, 16})
  /\ SubSeq(s, 5, 5) = "-" /\ SubSeq(s, 8, 8) = "-" /\ SubSeq(s, 14, 14) = ":"
  /\ LET rest == SubSeq(s, 17, Len(s))
         zone(z) == /\ SubSeq(z, 1, 1) \in {"+", "-"}
                    /\ AllDigits(z, {2, 3, 5, 6})
                    /\ SubSeq(z, 4, 4) = ":"
         secs(r) == SubSeq(r, 1, 1) = ":" /\ AllDigits(r, {2, 3})
         frac(r) == SubSeq(r, 4, 4) = "." /\ AllDigits(r, {5, 6, 7})
     IN CASE Len(rest) = 0  -> TRUE
          [] Len(rest) = 3  -> secs(rest)
          [] Len(rest) = 6  -> zone(rest)
          [] Len(rest) = 7  -> secs(rest) /\ frac(rest)
          [] Len(rest) = 9  -> secs(rest) /\ zone(SubSeq(rest, 4, 9))
          [] Len(rest) = 13 -> secs(rest) /\ frac(rest) /\ zone(SubSeq(rest, 8, 13))

\* lines 100-104: the try/except around the timestamp formatting
FormatTimestamp(timestamp) ==
  IF ~IsStr(timestamp) THEN ""
  ELSE LET s == ReplaceZ(timestamp.v)
       IN IF IsIsoFormat(s) THEN SubSeq(s, 1, 10) \o " " \o SubSeq(s, 12, 16) ELSE ""

\* lines 95-107: the two writes for each prompt, numbered from 1
RECURSIVE PromptWrites(_, _)
PromptWrites(prompts, i) ==
  IF i > Len(prompts) THEN <<>>
  ELSE << "### " \o ToString(i) \o ". " \o FormatTimestamp(prompts[i].timestamp) \o "\n\n",
          prompts[i].content \o "\n\n" >>
       \o PromptWrites(prompts, i + 1)

InfoGet(session_info, k, default) ==
  IF k \in DOMAIN session_info THEN session_info[k] ELSE default

\* the document, as the sequence of strings written to the file; the quote '
\* stands for the backquote of line 91, which a TLA+ string cannot hold
write_session_md(prompts, session_info) ==
  << "# Session: " \o PyStr(InfoGet(session_info, "slug", Str("Unknown"))) \o "\n\n",
     "**Session ID**: '" \o PyStr(InfoGet(session_info, "sessionId", Str("Unknown"))) \o "'\n\n",
     "---\n\n",
     "## User Prompts\n\n" >>
  \o PromptWrites(prompts, 1)

\* ------------------------------------------------------------- inputs
TextBlock(s) == Dict([type |-> Str("text"), text |-> Str(s)])

BlockSamples ==
  { TextBlock("hello"),
    TextBlock("[Tool use: ls]"),
    TextBlock("[Request interrupted by user]"),
    TextBlock(" second "),
    Dict([type |-> Str("tool_result"), content |-> Str("out")]),
    Dict([type |-> Str("image")]),
    Str("loose"),
    Dict([type |-> Str("text")]),
    Dict([type |-> Str("text"), text |-> Null]),
    Dict([type |-> Str("text"), text |-> Num(7)]) }

BlockSeqs == UNION { [1..n -> BlockSamples] : n \in 0..MaxBlocks }

ContentSamples ==
  { Str("hi!"), Str(" [Request interrupted by user]"), Str("  x "), Str(""),
    Null, Num(7), Dict([text |-> Str("hello")]) }
  \cup { List(q) : q \in BlockSeqs }

TypeSamples == {"user", "assistant"}

TextSamples ==
  {"", "a", "hello", "[Request interrupted by user]", " [Request interrupted by user]"}

Record(type, content) ==
  Dict([type |-> Str(type), message |-> Dict([role |-> Str("user"), content |-> content])])

UserHi ==
  Dict([type |-> Str("user"), sessionId |-> Str("s1"),
        timestamp |-> Str("2024-01-01T12:30:00Z"),
        message |-> Dict([role |-> Str("user"), content |-> Str("hi!")])])

AsstOk ==
  Dict([type |-> Str("assistant"), sessionId |-> Str("s2"), slug |-> Str("calm-river"),
        gitBranch |-> Str("main"), version |-> Str("2.0.1"),
        timestamp |-> Str("2024-01-01T12:31:05.250Z"),
        message |-> Dict([role |-> Str("assistant"),
                          content |-> List(<<TextBlock("sure, done")>>)])])

UserTool ==
  Dict([type |-> Str("user"), sessionId |-> Str(""),
        message |-> Dict([role |-> Str("user"),
                          content |-> List(<<TextBlock("long text"),
                                             Dict([type |-> Str("tool_result"),
                                                   content |-> Str("out")])>>)])])

UserInterrupt ==
  Dict([type |-> Str("user"),
        message |-> Dict([role |-> Str("user"),
                          content |-> Str(" [Request interrupted by user]")])])

UserBlocks ==
  Dict([type |-> Str("user"), slug |-> Str("late-slug"), timestamp |-> Str("yesterday"),
        message |-> Dict([role |-> Str("user"),
                          content |-> List(<<TextBlock(" two"), TextBlock("[Tool use: ls]"),
                                             TextBlock("lines ")>>)])])

BadMessage == Dict([type |-> Str("user"), sessionId |-> Str("s3"), message |-> Null])

BadText ==
  Dict([type |-> Str("user"),
        message |-> Dict([content |-> List(<<Dict([type |-> Str("text"), text |-> Null])>>)])])

CorruptSamples == { CorruptLine(""), CorruptLine("{oops") }

RecordSamples == { UserHi, AsstOk, UserTool, UserInterrupt, UserBlocks, BadMessage, BadText }

\* valid structured data that is no mapping
NonRecordSamples == { List(<<>>), Str("x"), Num(7), Null }

LineSamples ==
  CorruptSamples \cup { ValidLine(v) : v \in RecordSamples \cup NonRecordSamples }

\* -------------------------------------------------------------- state
VARIABLES
  pc,            \* where main / process_session stands
  nFiles,        \* len(session_files)
  fileIdx,       \* index of jsonl_path in session_files, 0 before the loop
  lines,         \* the lines of the current file read so far
  prompts,       \* process_session: prompts
  session_info,  \* process_session: session_info
  exc,           \* the exception that ended the run, "" if none
  docs,          \* OUTPUT_DIR: file name -> the strings written to it
  kept,          \* len(prompts) returned for each session file processed so far
  fn_pc,         \* direct calls of the two pure functions: position
  fn_data,       \*   the record given to is_real_user_prompt
  fn_text,       \*   the content_text given to is_real_user_prompt
  fn_out,        \*   what extract_text_content returned
  fn_real        \*   what is_real_user_prompt returned

vars == <<pc, nFiles, fileIdx, lines, prompts, session_info, exc, docs, kept,
          fn_pc, fn_data, fn_text, fn_out, fn_real>>

mainVars == <<pc, nFiles, fileIdx, lines, prompts, session_info, exc, docs, kept>>
fnVars   == <<fn_pc, fn_data, fn_text, fn_out, fn_real>>

FnIdle ==
  /\ fn_pc = "idle"
  /\ fn_data = EmptyDict
  /\ fn_text = ""
  /\ fn_out = Ok("")
  /\ fn_real = Ok(FALSE)

\* jsonl_path.stem of the i-th session file
Stem(i) == "session-" \o ToString(i)

\* ------------------------------------------------------------- main
Init ==
  /\ pc = "main_loop"
  /\ nFiles \in 0..MaxFiles
  /\ fileIdx = 0
  /\ lines = <<>>
  /\ prompts = <<>>
  /\ session_info = EmptyInfo
  /\ exc = ""
  /\ docs = <<>>
  /\ kept = <<>>
  /\ FnIdle

\* lines 117-121: the next jsonl_path; process_session starts (lines 54-57)
BeginSession ==
  /\ pc = "main_loop"
  /\ fileIdx < nFiles
  /\ fileIdx' = fileIdx + 1
  /\ lines' = <<>>
  /\ prompts' = <<>>
  /\ session_info' = EmptyInfo
  /\ pc' = "reading"
  /\ UNCHANGED <<nFiles, exc, docs, kept>>
  /\ UNCHANGED fnVars

\* lines 58-83: one iteration of "for line in f"; an exception other than
\* JSONDecodeError leaves process_session and, uncaught, main as well
ReadLine(maxLines) ==
  /\ pc = "reading"
  /\ Len(lines) < maxLines
  /\ \E line \in LineSamples :
       LET r == ProcessLine(prompts, session_info, line)
       IN /\ lines' = Append(lines, line)
          /\ prompts' = r.prompts
          /\ session_info' = r.session_info
          /\ exc' = r.exc
          /\ pc' = IF r.exc = "" THEN "reading" ELSE "raised"
  /\ UNCHANGED <<nFiles, fileIdx, docs, kept>>
  /\ UNCHANGED fnVars

\* end of file, line 85, then lines 123-126: prompts were kept
SessionWritten ==
  /\ pc = "reading"
  /\ prompts # <<>>
  /\ kept' = Append(kept, Len(prompts))
  /\ docs' = (Stem(fileIdx) \o ".md" :> write_session_md(prompts, session_info)) @@ docs
  /\ pc' = "main_loop"
  /\ UNCHANGED <<nFiles, fileIdx, lines, prompts, session_info, exc>>
  /\ UNCHANGED fnVars

\* faulty variant: the "if prompts" test is missing, a document is always written
SessionEmpty_WritesDocument ==
  /\ pc = "reading"
  /\ prompts = <<>>
  /\ kept' = Append(kept, Len(prompts))
  /\ docs' = (Stem(fileIdx) \o ".md" :> write_session_md(prompts, session_info)) @@ docs
  /\ pc' = "main_loop"
  /\ UNCHANGED <<nFiles, fileIdx, lines, prompts, session_info, exc>>
  /\ UNCHANGED fnVars

\* end of file, line 85, then lines 127-128: no prompts found
SessionEmpty ==
  /\ pc = "reading"
  /\ prompts = <<>>
  /\ kept' = Append(kept, Len(prompts))
  /\ pc' = "main_loop"
  /\ UNCHANGED <<nFiles, fileIdx, lines, prompts, session_info, exc, docs>>
  /\ UNCHANGED fnVars

\* line 130: the loop is over
MainDone ==
  /\ pc = "main_loop"
  /\ fileIdx = nFiles
  /\ pc' = "done"
  /\ UNCHANGED <<nFiles, fileIdx, lines, prompts, session_info, exc, docs, kept>>
  /\ UNCHANGED fnVars

MainReadLine == ReadLine(MaxMainLines)

Next == BeginSession \/ MainReadLine \/ SessionWritten \/ SessionEmpty \/ MainDone

Spec == Init /\ [][Next]_vars

\* ------------------------------------------- process_session on one file
InitSession ==
  /\ pc = "reading"
  /\ nFiles = 1
  /\ fileIdx = 1
  /\ lines = <<>>
  /\ prompts = <<>>
  /\ session_info = EmptyInfo
  /\ exc = ""
  /\ docs = <<>>
  /\ kept = <<>>
  /\ FnIdle

SessionReadLine == ReadLine(MaxLines)

\* line 85: return prompts, session_info
Return ==
  /\ pc = "reading"
  /\ pc' = "returned"
  /\ UNCHANGED <<nFiles, fileIdx, lines, prompts, session_info, exc, docs, kept>>
  /\ UNCHANGED fnVars

NextSession == SessionReadLine \/ Return

SpecSession == InitSession /\ [][NextSession]_vars

\* ------------------------------------------- the pure functions, called directly
InitFn ==
  /\ pc = "idle"
  /\ nFiles = 0
  /\ fileIdx = 0
  /\ lines = <<>>
  /\ prompts = <<>>
  /\ session_info = EmptyInfo
  /\ exc = ""
  /\ docs = <<>>
  /\ kept = <<>>
  /\ fn_pc = "input"
  /\ fn_data \in { Record(ty, c) : ty \in TypeSamples, c \in ContentSamples }
  /\ fn_text = ""
  /\ fn_out = Ok("")
  /\ fn_real = Ok(FALSE)

FnContent == DictGet(DictGet(fn_data, "message", EmptyDict), "content", Str(""))

\* extract_text_content(content)
FnExtract ==
  /\ fn_pc = "input"
  /\ fn_out' = extract_text_content(FnContent)
  /\ fn_pc' = "extracted"
  /\ UNCHANGED <<fn_data, fn_text, fn_real>>
  /\ UNCHANGED mainVars

\* is_real_user_prompt(data, content_text), on the extracted text or any other
FnClassify ==
  /\ fn_pc \in {"input", "extracted"}
  /\ \E text \in TextSamples
                 \cup (IF fn_pc = "extracted" /\ fn_out.exc = "" THEN {fn_out.val} ELSE {}) :
       /\ fn_text' = text
       /\ fn_real' = is_real_user_prompt(fn_data, text)
  /\ fn_pc' = "classified"
  /\ UNCHANGED <<fn_data, fn_out>>
  /\ UNCHANGED mainVars

NextFn == FnExtract \/ FnClassify

SpecFn == InitFn /\ [][NextFn]_vars

\* ================================================================ claims
IsToolResultBlock(b) ==
  b.t = "dict" /\ "type" \in DOMAIN b.v /\ b.v["type"] = Str("tool_result")

FnType == DictGet(fn_data, "type", Null)

\* C1: is_real_user_prompt returns false whenever the record's message content
\* is a block sequence holding a tool_result mapping at any position, whatever
\* the text given to it.
C1_ToolResultRejected ==
  (/\ fn_pc = "classified"
   /\ FnContent.t = "list"
   /\ \E i \in 1..Len(FnContent.v) : IsToolResultBlock(FnContent.v[i]))
  => fn_real = Ok(FALSE)

\* C1 witness: a user record, the tool_result block is not the first one and
\* the text given has 2 characters or more
C1_Witness ==
  /\ fn_pc = "classified"
  /\ FnType = Str("user")
  /\ FnContent.t = "list"
  /\ Len(FnContent.v) >= 2
  /\ ~IsToolResultBlock(FnContent.v[1])
  /\ \E i \in 2..Len(FnContent.v) : IsToolResultBlock(FnContent.v[i])
  /\ Len(Strip(fn_text)) >= 2
  /\ fn_real = Ok(FALSE)

\* C2: for a user-type record, is_real_user_prompt returns false when the text,
\* trimmed of surrounding whitespace, starts with "[Request interrupted".
C2_TrimmedInterruptRejected ==
  (/\ fn_pc = "classified"
   /\ FnType = Str("user")
   /\ StartsWith(Strip(fn_text), "[Request interrupted"))
  => fn_real = Ok(FALSE)

\* the text a block contributes: that of a mapping of type text whose text
\* starts with neither marker
C3_Contributes(b) ==
  /\ b.t = "dict"
  /\ "type" \in DOMAIN b.v /\ b.v["type"] = Str("text")
  /\ ("text" \in DOMAIN b.v =>
        /\ b.v["text"].t = "str"
        /\ ~StartsWith(b.v["text"].v, "[Tool")
        /\ ~StartsWith(b.v["text"].v, "[Request interrupted"))

C3_TextOf(b) == IF "text" \in DOMAIN b.v THEN b.v["text"].v ELSE ""

C3_Expected(items) ==
  LET sel == SelectSeq(items, C3_Contributes)
  IN Join([i \in 1..Len(sel) |-> C3_TextOf(sel[i])])

\* C3: what extract_text_content returns for a block sequence is the texts of
\* the mappings of type text whose text starts with neither "[Tool" nor
\* "[Request interrupted", in order, joined by one newline; a plain string
\* comes back unchanged.
C3_ExtractedText ==
  (fn_pc = "extracted" /\ fn_out.exc = "")
  => /\ FnContent.t = "list" => fn_out.val = C3_Expected(FnContent.v)
     /\ FnContent.t = "str"  => fn_out.val = FnContent.v

\* C3 witness: three blocks, two kept texts around a filtered "[Tool" text
C3_Witness ==
  /\ fn_pc = "extracted"
  /\ FnContent.t = "list"
  /\ Len(FnContent.v) = 3
  /\ FnContent.v[2] = TextBlock("[Tool use: ls]")
  /\ fn_out = Ok("hello\n second ")

\* C4: extract_text_content never raises, also for blocks whose text field is
\* null or a number, and returns empty text for an input that is neither a
\* string nor a sequence.
C4_ExtractNeverFails ==
  fn_pc = "extracted"
  => /\ fn_out.exc = ""
     /\ FnContent.t \notin {"str", "list"} => fn_out.val = ""

\* process_session run on a whole file from its start
RECURSIVE RunLines(_, _, _)
RunLines(ls, p, s) ==
  IF Len(ls) = 0 THEN Step("", p, s)
  ELSE LET r == ProcessLine(p, s, Head(ls))
       IN IF r.exc # "" THEN r ELSE RunLines(Tail(ls), r.prompts, r.session_info)

IsCorrupt(line) == line.json = "invalid"
IsParsed(line)  == line.json = "valid"

\* C5: corrupt lines among the lines of a file change nothing: the call does
\* not abort where the file without them does not, and it returns the prompts
\* and the session info of the file without them.
C5_CorruptLinesSkipped ==
  LET ref == RunLines(SelectSeq(lines, IsParsed), <<>>, EmptyInfo)
  IN /\ ref.exc = "" => pc # "raised"
     /\ pc = "returned" => /\ ref.exc = ""
                           /\ prompts = ref.prompts
                           /\ session_info = ref.session_info

\* C5 witness: a corrupt line between two lines that each gave a prompt
C5_Witness ==
  /\ pc = "returned"
  /\ Len(lines) = 3
  /\ IsCorrupt(lines[2])
  /\ Len(prompts) = 2

HasSessionId(line) ==
  /\ IsParsed(line)
  /\ line.value.t = "dict"
  /\ "sessionId" \in DOMAIN line.value.v
  /\ line.value.v["sessionId"].t = "str"
  /\ line.value.v["sessionId"].v # ""

Field(d, k) == IF k \in DOMAIN d.v THEN d.v[k] ELSE Str("")

\* the session info of the first line with a non-empty sessionId
C6_FirstSeen(ls) ==
  LET idx == { i \in 1..Len(ls) : HasSessionId(ls[i]) }
  IN IF idx = {} THEN <<>>
     ELSE LET first == CHOOSE i \in idx : \A j \in idx : i <= j
              d == ls[first].value
          IN [sessionId |-> Field(d, "sessionId"), slug |-> Field(d, "slug"),
              gitBranch |-> Field(d, "gitBranch"), version |-> Field(d, "version")]

\* C6: after any number of lines, the session info is the one of the first
\* record with a non-empty sessionId, of whatever type, and empty if there is
\* none; no later record changes it.
C6_FirstSeenWins ==
  pc \in {"reading", "returned"} => session_info = C6_FirstSeen(lines)

\* C6 witness: the capturing record has no slug, a later record has another
\* sessionId and a slug
C6_Witness ==
  /\ pc = "returned"
  /\ Len(lines) >= 2
  /\ lines[1] = ValidLine(UserHi)
  /\ lines[2] = ValidLine(AsstOk)
  /\ session_info.sessionId = Str("s1")
  /\ session_info.slug = Str("")

\* the document main wrote for the session file it has just processed
LastDocName == Stem(fileIdx) \o ".md"

C7_Capturing == { i \in 1..Len(lines) : HasSessionId(lines[i]) }

\* C7: the document written for a session whose capturing record supplied no
\* slug (or that had no capturing record) has the title "# Session: Unknown",
\* and shows Unknown as the session id when no sessionId was captured.
C7_UnknownFallback ==
  (/\ pc = "main_loop"
   /\ fileIdx >= 1
   /\ LastDocName \in DOMAIN docs)
  => /\ (\A i \in C7_Capturing :
            (\A j \in C7_Capturing : i <= j) => "slug" \notin DOMAIN lines[i].value.v)
        => docs[LastDocName][1] = "# Session: Unknown\n\n"
     /\ C7_Capturing = {} => docs[LastDocName][2] = "**Session ID**: 'Unknown'\n\n"

\* C8: a document {stem}.md exists exactly for the session files for which
\* process_session returned at least one prompt; a session without prompts
\* does not end the run, which goes through every session file.
C8_DocumentIffPrompts ==
  /\ \A i \in 1..Len(kept) : (Stem(i) \o ".md" \in DOMAIN docs) <=> kept[i] >= 1
  /\ DOMAIN docs \subseteq { Stem(i) \o ".md" : i \in 1..Len(kept) }
  /\ (pc = "main_loop" /\ fileIdx < nFiles) => ENABLED BeginSession
  /\ pc = "done" => Len(kept) = nFiles

\* C8 witness: a session without prompts, then one with a prompt
C8_Witness ==
  /\ pc = "done"
  /\ nFiles = 2
  /\ kept = <<0, 1>>
  /\ DOMAIN docs = {"session-2.md"}

C9_Accepted(line) ==
  /\ IsParsed(line)
  /\ is_real_user_prompt(line.value,
        extract_text_content(Field(Field(line.value, "message"), "content")).val).val

C9_Entry(line) ==
  [content |-> Strip(extract_text_content(Field(Field(line.value, "message"), "content")).val),
   timestamp |-> Field(line.value, "timestamp")]

C9_Expected(ls) ==
  LET sel == SelectSeq(ls, C9_Accepted)
  IN [i \in 1..Len(sel) |-> C9_Entry(sel[i])]

\* C9: the list process_session returns is the file-order subsequence of the
\* records is_real_user_prompt accepts, one entry each, repeated prompts
\* included, content trimmed and timestamp copied ("" when absent).
C9_AcceptedSubsequence ==
  pc = "returned" => prompts = C9_Expected(lines)

\* C9 witness: the same prompt twice with a record of another type between
C9_Witness ==
  /\ pc = "returned"
  /\ lines = <<ValidLine(UserHi), ValidLine(AsstOk), ValidLine(UserHi)>>
  /\ Len(prompts) = 2
  /\ prompts[1] = prompts[2]

\* valid structured data that is no usable record
C10_Unusable(line) ==
  /\ IsParsed(line)
  /\ \/ line.value.t # "dict"
     \/ ("message" \in DOMAIN line.value.v /\ line.value.v["message"].t # "dict")

\* C10: a line that is valid structured data but no usable record does not end
\* process_session or main.
C10_UnusableRecordSkipped ==
  (Len(lines) > 0 /\ C10_Unusable(lines[Len(lines)])) => pc # "raised"

====
